---- MODULE Spec2Model ----
(***************************************************************************)
(* A model of plot_migration_stats.py: the stats-file parser, the dataset  *)
(* aligner, the derived ratios, the best/worst/middle ranking and the zoom *)
(* heuristic, run as the pipeline of main().                               *)
(*                                                                         *)
(* A stats file is a sequence of lines; a line is the sequence of its      *)
(* whitespace-separated tokens after line.strip().  A token is a record    *)
(*   k  : its lexical kind ("int", "word", "hdr", "label", "pct", "frac"), *)
(*   s  : its text (kinds word, hdr, label),                               *)
(*   a,b: its numbers (int: a; pct: a%; frac: (a/b)),                      *)
(*   sp : the width of the whitespace run that follows it on the line.     *)
(* Percentages are exact rationals [n, d] with d > 0 in lowest terms, in   *)
(* place of Python's floats; counter values stay far inside the range in   *)
(* which floats are exact enough to order them the same way.               *)
(*                                                                         *)
(* Dataset names are distinct (one file per DUT).  From the charts the     *)
(* model keeps what is drawn for which dataset: series, colour, z-order,   *)
(* line weight, the time axis and the y range; titles, labels, markers and *)
(* tick formats are left out.                                              *)
(***************************************************************************)
EXTENDS Integers, Sequences, FiniteSets, TLC

VARIABLES files, file_idx, pc, stats_raw, stats_map, min_len,
          pct_by_dut, valid_success_by_dut, valid_fails_by_dut,
          charts, general_plot, ratio_plot, success_plot, fails_plot, rate_plot

vars == <<files, file_idx, pc, stats_raw, stats_map, min_len,
          pct_by_dut, valid_success_by_dut, valid_fails_by_dut,
          charts, general_plot, ratio_plot, success_plot, fails_plot, rate_plot>>

(* Bounds of the model. *)
MaxLines == 2
MaxDuts == 4

----------------------------------------------------------------------------
(* Exact rational arithmetic standing for the float expressions.           *)

Abs(x) == IF x < 0 THEN -x ELSE x

RECURSIVE Gcd(_, _)
Gcd(x, y) == IF y = 0 THEN x ELSE Gcd(y, x % y)

Rat(n, d) ==
    LET g == Gcd(Abs(n), Abs(d))
        sgn == IF d < 0 THEN -1 ELSE 1
    IN  [n |-> sgn * (n \div g), d |-> sgn * (d \div g)]

RInt(x) == [n |-> x, d |-> 1]
RLt(p, q) == p.n * q.d < q.n * p.d
RLe(p, q) == p.n * q.d <= q.n * p.d
RAdd(p, q) == Rat(p.n * q.d + q.n * p.d, p.d * q.d)
RSub(p, q) == Rat(p.n * q.d - q.n * p.d, p.d * q.d)
RMul(p, q) == Rat(p.n * q.n, p.d * q.d)
RMax(p, q) == IF RLt(p, q) THEN q ELSE p
RMin(p, q) == IF RLt(q, p) THEN q ELSE p

----------------------------------------------------------------------------
(* Tokens and lines.                                                       *)

Num(v) == [k |-> "int", s |-> "", a |-> v, b |-> 0, sp |-> 1]
Word(w) == [k |-> "word", s |-> w, a |-> 0, b |-> 0, sp |-> 1]
Hdr(w) == [k |-> "hdr", s |-> w, a |-> 0, b |-> 0, sp |-> 1]
Label(w) == [k |-> "label", s |-> w, a |-> 0, b |-> 0, sp |-> 1]
Pct(p, w) == [k |-> "pct", s |-> "", a |-> p, b |-> 0, sp |-> w]
Frac(x, y) == [k |-> "frac", s |-> "", a |-> x, b |-> y, sp |-> 1]

(* The text of a token, as re.split hands it to the caller. *)
Text(tok) ==
    CASE tok.k = "int" -> ToString(tok.a)
      [] tok.k = "pct" -> ToString(tok.a) \o "%"
      [] tok.k = "frac" -> "(" \o ToString(tok.a) \o "/" \o ToString(tok.b) \o ")"
      [] OTHER -> tok.s

(* int(value): defined on integer literals, ValueError on anything else. *)
IsIntLiteral(tok) == tok.k = "int"

(* line.startswith("[") *)
IsSectionHeader(line) == Len(line) >= 1 /\ line[1].k = "hdr"

(* Variant: the pattern accepts any label before the percentage. *)
SummaryMatch_anylabel(line) ==
    /\ Len(line) >= 4
    /\ line[1].k = "label"
    /\ line[2].k = "pct" /\ line[2].sp = 1
    /\ line[3].k = "word" /\ line[3].s = "success"
    /\ line[4].k = "frac"

(* re.match(r'buffer_migrate_folio_norefs:\s+(\d+)% success\s+\((\d+)/(\d+)\)', line) *)
SummaryMatch(line) ==
    /\ Len(line) >= 4
    /\ line[1].k = "label" /\ line[1].s = "buffer_migrate_folio_norefs:"
    /\ line[2].k = "pct" /\ line[2].sp = 1
    /\ line[3].k = "word" /\ line[3].s = "success"
    /\ line[4].k = "frac"

(* line.startswith("Success ratios:") *)
IsSuccessRatios(line) ==
    /\ Len(line) >= 2
    /\ line[1].k = "word" /\ line[1].s = "Success" /\ line[1].sp = 1
    /\ line[2].k = "word" /\ line[2].s = "ratios:"

----------------------------------------------------------------------------
(* Python dicts of series: a function from the keys present.               *)

EmptyDict == <<>>

Get(stats, key, default) == IF key \in DOMAIN stats THEN stats[key] ELSE default

(* stats.setdefault(key, []).append(value) *)
SetDefaultAppend(stats, key, value) ==
    IF key \in DOMAIN stats
    THEN [stats EXCEPT ![key] = Append(@, value)]
    ELSE stats @@ (key :> <<value>>)

(* Variant: the default is [0], not [0] * n. *)
Zeros_single(n) == [i \in 1..1 |-> 0]

(* [0] * n *)
Zeros(n) == [i \in 1..n |-> 0]

(* An insertion-ordered dict as a sequence of [name, val]: d[name] = val. *)
DictSet(d, name, val) ==
    IF \E i \in 1..Len(d) : d[i].name = name
    THEN [i \in 1..Len(d) |-> IF d[i].name = name THEN [name |-> name, val |-> val] ELSE d[i]]
    ELSE Append(d, [name |-> name, val |-> val])

----------------------------------------------------------------------------
(* parse_stats_file                                                        *)

(* Variant: a value that is no integer is skipped instead of raising. *)
ParseLine_skipbad(res, line) ==
    IF ~res.ok THEN res
    ELSE IF Len(line) = 0 \/ IsSectionHeader(line) THEN res
    ELSE IF SummaryMatch(line)
         THEN [ok |-> TRUE,
               stats |-> SetDefaultAppend(
                             SetDefaultAppend(res.stats, "norefs_success_summary", line[4].a),
                             "norefs_total_summary", line[4].b)]
    ELSE IF IsSuccessRatios(line) THEN res
    ELSE IF Len(line) # 2 THEN res
    ELSE IF ~IsIntLiteral(line[2]) THEN res
    ELSE [ok |-> TRUE, stats |-> SetDefaultAppend(res.stats, Text(line[1]), line[2].a)]

(* Variant: lines of two or more tokens are read as key and value. *)
ParseLine_atleast2(res, line) ==
    IF ~res.ok THEN res
    ELSE IF Len(line) = 0 \/ IsSectionHeader(line) THEN res
    ELSE IF SummaryMatch(line)
         THEN [ok |-> TRUE,
               stats |-> SetDefaultAppend(
                             SetDefaultAppend(res.stats, "norefs_success_summary", line[4].a),
                             "norefs_total_summary", line[4].b)]
    ELSE IF IsSuccessRatios(line) THEN res
    ELSE IF Len(line) < 2 THEN res
    ELSE IF ~IsIntLiteral(line[2]) THEN [ok |-> FALSE, stats |-> EmptyDict]
    ELSE [ok |-> TRUE, stats |-> SetDefaultAppend(res.stats, Text(line[1]), line[2].a)]

(* The effect of one line on [ok, stats]; ok = FALSE is the ValueError of int(value). *)
ParseLine(res, line) ==
    IF ~res.ok THEN res
    ELSE IF Len(line) = 0 \/ IsSectionHeader(line) THEN res
    ELSE IF SummaryMatch(line)
         THEN [ok |-> TRUE,
               stats |-> SetDefaultAppend(
                             SetDefaultAppend(res.stats, "norefs_success_summary", line[4].a),
                             "norefs_total_summary", line[4].b)]
    ELSE IF IsSuccessRatios(line) THEN res
    ELSE IF Len(line) # 2 THEN res
    ELSE IF ~IsIntLiteral(line[2]) THEN [ok |-> FALSE, stats |-> EmptyDict]
    ELSE [ok |-> TRUE, stats |-> SetDefaultAppend(res.stats, Text(line[1]), line[2].a)]

RECURSIVE ParseLines(_, _, _)
ParseLines(text, i, res) ==
    IF i > Len(text) THEN res ELSE ParseLines(text, i + 1, ParseLine(res, text[i]))

parse_stats_file(text) == ParseLines(text, 1, [ok |-> TRUE, stats |-> EmptyDict])

----------------------------------------------------------------------------
(* truncate_all                                                            *)

(* len(v) for stats in stats_dicts.values() for v in stats.values() *)
SeriesLengths(stats_dicts) ==
    {Len(stats_dicts[i].val[key]) : <<i, key>> \in
        {p \in (1..Len(stats_dicts)) \X UNION {DOMAIN stats_dicts[j].val : j \in 1..Len(stats_dicts)} :
            p[2] \in DOMAIN stats_dicts[p[1]].val}}

SetMin(S) == CHOOSE m \in S : \A x \in S : m <= x

(* v[:n] *)
Prefix(v, n) == [i \in 1..(IF n < Len(v) THEN n ELSE Len(v)) |-> v[i]]

(* Variant: each dataset is cut to its own shortest series. *)
truncate_all_per_dataset(stats_dicts) ==
    LET lens == SeriesLengths(stats_dicts)
        own(i) == {Len(stats_dicts[i].val[key]) : key \in DOMAIN stats_dicts[i].val}
    IN
    IF lens = {} THEN [ok |-> FALSE, stats_map |-> <<>>, min_len |-> 0]
    ELSE [ok |-> TRUE,
          stats_map |-> [i \in 1..Len(stats_dicts) |->
                            [name |-> stats_dicts[i].name,
                             val |-> [key \in DOMAIN stats_dicts[i].val |->
                                         Prefix(stats_dicts[i].val[key], SetMin(own(i)))]]],
          min_len |-> SetMin(lens)]

(* min() of an empty sequence raises ValueError: ok = FALSE. *)
truncate_all(stats_dicts) ==
    LET lens == SeriesLengths(stats_dicts) IN
    IF lens = {} THEN [ok |-> FALSE, stats_map |-> <<>>, min_len |-> 0]
    ELSE LET m == SetMin(lens) IN
         [ok |-> TRUE,
          stats_map |-> [i \in 1..Len(stats_dicts) |->
                            [name |-> stats_dicts[i].name,
                             val |-> [key \in DOMAIN stats_dicts[i].val |->
                                         Prefix(stats_dicts[i].val[key], m)]]],
          min_len |-> m]

----------------------------------------------------------------------------
(* Helpers shared by the charts.                                           *)

(* time = [(i * 60) / 3600.0 for i in range(min_len)] *)
TimeAxis(n) == [i \in 1..n |-> Rat((i - 1) * 60, 3600)]

(* ax.plot(x, y) / ax.stackplot(x, y...) raise ValueError unless len(x) = len(y). *)
PlotOk(time, series) == Len(time) = Len(series)

SeqMax(v) == CHOOSE m \in {v[i] : i \in 1..Len(v)} : \A i \in 1..Len(v) : v[i] <= m

IntMax(x, y) == IF x < y THEN y ELSE x
IntMin(x, y) == IF y < x THEN y ELSE x
(* x < y on the keys of a sort: floats (the ratios) or ints (the counts). *)
KeyLt(x, y, floats) == IF floats THEN RLt(x, y) ELSE x < y

(* sorted(items, key=lambda x: x[1]): stable, ascending by val. *)
Sorted(items, floats) ==
    LET n == Len(items)
        Lt(x, y) == KeyLt(x, y, floats)
        pos(i) == 1 + Cardinality({j \in 1..n :
                        \/ Lt(items[j].val, items[i].val)
                        \/ (~Lt(items[i].val, items[j].val) /\ j < i)})
    IN  [p \in 1..n |-> items[CHOOSE i \in 1..n : pos(i) = p]]

(* [dut for dut, _ in sorted_duts[1:-1]] *)
MiddleOf(sorted) == [i \in 1..IntMax(0, Len(sorted) - 2) |-> sorted[i + 1].name]

InSeq(seq, x) == \E i \in 1..Len(seq) : seq[i] = x

(* seq.index(x), zero-based *)
IndexOf(seq, x) == (CHOOSE i \in 1..Len(seq) : seq[i] = x /\ \A j \in 1..(i - 1) : seq[j] # x) - 1

Color(c, i, m) == [c |-> c, i |-> i, m |-> m]

----------------------------------------------------------------------------
(* plot_general                                                            *)

plot_general(sm, n) ==
    LET time == TimeAxis(n)
        panel(i) == [dut |-> sm[i].name,
                     success |-> Get(sm[i].val, "success", Zeros(n)),
                     fails |-> Get(sm[i].val, "fails", Zeros(n)),
                     invalid |-> Get(sm[i].val, "invalid", Zeros(n))]
        panels == [i \in 1..Len(sm) |-> panel(i)]
        top(v) == IF Len(v) > 0 THEN SeqMax(v) ELSE 0
        RECURSIVE ymaxUpTo(_)
        ymaxUpTo(i) == IF i = 0 THEN 0
                       ELSE IntMax(ymaxUpTo(i - 1),
                                   IntMax(top(panels[i].fails),
                                          IntMax(top(panels[i].success), top(panels[i].invalid))))
        ymax == ymaxUpTo(Len(sm))
    IN  [ok |-> \A i \in 1..Len(sm) : /\ PlotOk(time, panels[i].fails)
                                      /\ PlotOk(time, panels[i].success)
                                      /\ PlotOk(time, panels[i].invalid),
         time |-> time,
         panels |-> panels,
         saved |-> TRUE,
         ylim |-> [lo |-> RInt(0),
                   hi |-> IF ymax > 0 THEN RMul(RInt(ymax), Rat(11, 10)) ELSE RInt(1)]]

----------------------------------------------------------------------------
(* plot_valid: the derived valid success ratio                             *)

(* zip(x, y) stops at the shorter argument. *)
ZipLen(x, y) == IntMin(Len(x), Len(y))

(* Variant: the ratio is taken over the fails alone. *)
ValidRatio_overfails(v_success, v_fails) ==
    [i \in 1..ZipLen(v_success, v_fails) |->
        IF v_fails[i] = 0 THEN RInt(0) ELSE Rat(v_success[i] * 100, v_fails[i])]

(* ratio.append(0) if total == 0 else ratio.append((s / total) * 100) *)
ValidRatio(v_success, v_fails) ==
    [i \in 1..ZipLen(v_success, v_fails) |->
        LET total == v_success[i] + v_fails[i] IN
        IF total = 0 THEN RInt(0) ELSE Rat(v_success[i] * 100, total)]

plot_valid(sm, n) ==
    LET vs(i) == Get(sm[i].val, "valid-success", Zeros(n))
        vf(i) == Get(sm[i].val, "valid-fails", Zeros(n))
    IN  [pct_by_dut |-> [i \in 1..Len(sm) |-> [name |-> sm[i].name, val |-> ValidRatio(vs(i), vf(i))]],
         valid_success_by_dut |-> [i \in 1..Len(sm) |-> [name |-> sm[i].name, val |-> vs(i)]],
         valid_fails_by_dut |-> [i \in 1..Len(sm) |-> [name |-> sm[i].name, val |-> vf(i)]]]

----------------------------------------------------------------------------
(* The three ranked valid charts                                           *)

(* {dut: series[-1] if series else 0 for dut, series in by_dut.items()} *)
FinalOrZero(by_dut, zero) ==
    [i \in 1..Len(by_dut) |->
        [name |-> by_dut[i].name,
         val |-> IF Len(by_dut[i].val) > 0 THEN by_dut[i].val[Len(by_dut[i].val)] ELSE zero]]

(* [...sorted[1:-1]] if len(sorted) > 2 else [] *)
MiddleIfMany(sorted) == IF Len(sorted) > 2 THEN MiddleOf(sorted) ELSE <<>>

(* Variant: the middle lines get the weight of the best and the worst. *)
ValidChartLines_heavy(by_dut, best, worst, middle) ==
    [i \in 1..Len(by_dut) |->
        LET dut == by_dut[i].name IN
        IF dut = best
        THEN [dut |-> dut, color |-> Color("green", 0, 0), zorder |-> Len(by_dut) + 1,
              linewidth |-> Rat(5, 2), series |-> by_dut[i].val]
        ELSE IF dut = worst
        THEN [dut |-> dut, color |-> Color("red", 0, 0), zorder |-> Len(by_dut),
              linewidth |-> Rat(5, 2), series |-> by_dut[i].val]
        ELSE LET idx == IF Len(middle) > 0 /\ InSeq(middle, dut) THEN IndexOf(middle, dut) ELSE 0
             IN  [dut |-> dut, color |-> Color("viridis", idx, IntMax(1, Len(middle))),
                  zorder |-> idx, linewidth |-> Rat(5, 2), series |-> by_dut[i].val]]

(* The drawing loop shared by the three valid charts: green best, red worst,
   viridis gradient for the rest. *)
ValidChartLines(by_dut, best, worst, middle) ==
    [i \in 1..Len(by_dut) |->
        LET dut == by_dut[i].name IN
        IF dut = best
        THEN [dut |-> dut, color |-> Color("green", 0, 0), zorder |-> Len(by_dut) + 1,
              linewidth |-> Rat(5, 2), series |-> by_dut[i].val]
        ELSE IF dut = worst
        THEN [dut |-> dut, color |-> Color("red", 0, 0), zorder |-> Len(by_dut),
              linewidth |-> Rat(5, 2), series |-> by_dut[i].val]
        ELSE LET idx == IF Len(middle) > 0 /\ InSeq(middle, dut) THEN IndexOf(middle, dut) ELSE 0
             IN  [dut |-> dut, color |-> Color("viridis", idx, IntMax(1, Len(middle))),
                  zorder |-> idx, linewidth |-> Rat(3, 2), series |-> by_dut[i].val]]

LinesOk(time, lines) == \A i \in 1..Len(lines) : PlotOk(time, lines[i].series)

(* The zoom range of the ratio chart, from the final ratios. *)
ZoomRange(final_ratios) ==
    LET non_zero_finals == {final_ratios[i].val : i \in
                               {j \in 1..Len(final_ratios) : RLt(RInt(0), final_ratios[j].val)}}
    IN  IF non_zero_finals # {}
        THEN LET min_final == CHOOSE m \in non_zero_finals : \A v \in non_zero_finals : RLe(m, v)
                 max_final == CHOOSE m \in non_zero_finals : \A v \in non_zero_finals : RLe(v, m)
                 value_range == RSub(max_final, min_final)
             IN  IF RLt(value_range, Rat(1, 2))
                 THEN [min_y |-> RMax(RInt(99), RSub(min_final, RMul(value_range, Rat(1, 2)))),
                       max_y |-> RMin(RInt(100), RAdd(max_final, RMul(value_range, Rat(1, 2))))]
                 ELSE [min_y |-> RMax(RInt(95), RSub(min_final, RInt(1))),
                       max_y |-> Rat(201, 2)]
        ELSE [min_y |-> RInt(95), max_y |-> Rat(201, 2)]

(* `if not sorted_duts: return`: nothing drawn, no file written. *)
NotSaved == [ok |-> TRUE, saved |-> FALSE]

plot_valid_ratio(by_dut, time) ==
    LET final_ratios == FinalOrZero(by_dut, RInt(0))
        sorted_duts == Sorted(final_ratios, TRUE)
    IN  IF Len(sorted_duts) = 0 THEN NotSaved
        ELSE LET worst_dut == sorted_duts[1].name
                 best_dut == sorted_duts[Len(sorted_duts)].name
                 middle_duts == MiddleIfMany(sorted_duts)
                 lines == ValidChartLines(by_dut, best_dut, worst_dut, middle_duts)
             IN  [ok |-> LinesOk(time, lines), saved |-> TRUE,
                  best |-> best_dut, worst |-> worst_dut, middle |-> middle_duts,
                  finals |-> final_ratios, lines |-> lines, time |-> time,
                  ylim |-> ZoomRange(final_ratios)]

plot_valid_success(by_dut, time) ==
    LET final_success == FinalOrZero(by_dut, 0)
        sorted_success == Sorted(final_success, FALSE)
    IN  IF Len(sorted_success) = 0 THEN NotSaved
        ELSE LET worst_success_dut == sorted_success[1].name
                 best_success_dut == sorted_success[Len(sorted_success)].name
                 middle_success_duts == MiddleIfMany(sorted_success)
                 lines == ValidChartLines(by_dut, best_success_dut, worst_success_dut,
                                          middle_success_duts)
             IN  [ok |-> LinesOk(time, lines), saved |-> TRUE,
                  best |-> best_success_dut, worst |-> worst_success_dut,
                  middle |-> middle_success_duts,
                  finals |-> final_success, lines |-> lines, time |-> time]

(* Variant: best and worst are both taken from the head of the sorted list. *)
plot_valid_fails_samefirst(by_dut, time) ==
    LET final_fails == FinalOrZero(by_dut, 0)
        sorted_fails == Sorted(final_fails, FALSE)
    IN  IF Len(sorted_fails) = 0 THEN NotSaved
        ELSE LET best_fails_dut == sorted_fails[1].name
                 worst_fails_dut == sorted_fails[1].name
                 middle_fails_duts == MiddleIfMany(sorted_fails)
                 lines == ValidChartLines(by_dut, best_fails_dut, worst_fails_dut,
                                          middle_fails_duts)
             IN  [ok |-> LinesOk(time, lines), saved |-> TRUE,
                  best |-> best_fails_dut, worst |-> worst_fails_dut,
                  middle |-> middle_fails_duts,
                  finals |-> final_fails, lines |-> lines, time |-> time]

(* Variant: the roles are not reversed, as in plot_valid_success. *)
plot_valid_fails_notreversed(by_dut, time) == plot_valid_success(by_dut, time)

plot_valid_fails(by_dut, time) ==
    LET final_fails == FinalOrZero(by_dut, 0)
        sorted_fails == Sorted(final_fails, FALSE)
    IN  IF Len(sorted_fails) = 0 THEN NotSaved
        ELSE LET best_fails_dut == sorted_fails[1].name
                 worst_fails_dut == sorted_fails[Len(sorted_fails)].name
                 middle_fails_duts == MiddleIfMany(sorted_fails)
                 lines == ValidChartLines(by_dut, best_fails_dut, worst_fails_dut,
                                          middle_fails_duts)
             IN  [ok |-> LinesOk(time, lines), saved |-> TRUE,
                  best |-> best_fails_dut, worst |-> worst_fails_dut,
                  middle |-> middle_fails_duts,
                  finals |-> final_fails, lines |-> lines, time |-> time]

----------------------------------------------------------------------------
(* plot_success_rate                                                       *)

(* [(s / t) * 100 if t > 0 else 0 for s, t in zip(success, total)] *)
NorefsRate(success, total) ==
    [i \in 1..ZipLen(success, total) |->
        IF total[i] > 0 THEN Rat(success[i] * 100, total[i]) ELSE RInt(0)]

(* The drawing loop of the success-rate chart: series[-1] raises IndexError on
   an empty series and middle_duts.index raises ValueError on a missing name. *)
RateChartLines(by_dut, best, worst, middle) ==
    [i \in 1..Len(by_dut) |->
        LET dut == by_dut[i].name IN
        IF dut = best
        THEN [ok |-> TRUE, dut |-> dut, color |-> Color("green", 0, 0), zorder |-> 3,
              linewidth |-> RInt(2), series |-> by_dut[i].val]
        ELSE IF dut = worst
        THEN [ok |-> TRUE, dut |-> dut, color |-> Color("red", 0, 0), zorder |-> 2,
              linewidth |-> RInt(2), series |-> by_dut[i].val]
        ELSE IF ~InSeq(middle, dut)
        THEN [ok |-> FALSE, dut |-> dut, color |-> Color("Greys", 0, 0), zorder |-> 1,
              linewidth |-> RInt(2), series |-> by_dut[i].val]
        ELSE [ok |-> TRUE, dut |-> dut,
              color |-> Color("Greys", IndexOf(middle, dut) + 1, Len(middle) + 1),
              zorder |-> 1, linewidth |-> RInt(2), series |-> by_dut[i].val]]

plot_success_rate(sm, n) ==
    LET time == TimeAxis(n)
        total(i) == Get(sm[i].val, "norefs_total_summary", Zeros(n))
        success(i) == Get(sm[i].val, "norefs_success_summary", Zeros(n))
        by_dut == [i \in 1..Len(sm) |->
                      [name |-> sm[i].name, val |-> NorefsRate(success(i), total(i))]]
    IN  IF Len(by_dut) = 0 \/ \E i \in 1..Len(by_dut) : Len(by_dut[i].val) = 0
        THEN [ok |-> FALSE, saved |-> FALSE]
        ELSE LET final_scores == FinalOrZero(by_dut, RInt(0))
                 sorted_duts == Sorted(final_scores, TRUE)
                 worst_dut == sorted_duts[1].name
                 best_dut == sorted_duts[Len(sorted_duts)].name
                 middle_duts == MiddleOf(sorted_duts)
                 lines == RateChartLines(by_dut, best_dut, worst_dut, middle_duts)
             IN  [ok |-> LinesOk(time, lines) /\ \A i \in 1..Len(lines) : lines[i].ok,
                  saved |-> TRUE,
                  best |-> best_dut, worst |-> worst_dut, middle |-> middle_duts,
                  finals |-> final_scores, lines |-> lines, time |-> time,
                  pct_by_dut |-> by_dut,
                  total |-> [i \in 1..Len(sm) |-> total(i)],
                  success |-> [i \in 1..Len(sm) |-> success(i)]]

----------------------------------------------------------------------------
(* Inputs: the stats files named on the command line.                      *)

(* os.path.splitext(os.path.basename(file))[0] of the i-th argument. *)
DutName(i) == "dut" \o ToString(i)

NorefsLabel == Label("buffer_migrate_folio_norefs:")

SummaryLine(success, total) ==
    <<NorefsLabel, Pct(IF total > 0 THEN (success * 100) \div total ELSE 0, 1),
      Word("success"), Frac(success, total)>>

(* Lines of every shape the parser distinguishes. *)
LineSet ==
    { <<>>,
      <<Hdr("[general"), Word("stats]")>>,
      <<NorefsLabel, Pct(97, 1), Word("success"), Frac(3, 2)>>,
      <<Label("migrate_folio:"), Pct(50, 1), Word("success"), Frac(1, 2)>>,
      <<NorefsLabel, Pct(50, 2), Word("success"), Frac(1, 2)>>,
      <<NorefsLabel, Pct(25, 1), Word("success"), Frac(1, 4), Word("retried")>>,
      <<Word("Success"), Word("ratios:")>>,
      <<Word("success"), Num(5)>>,
      <<Word("valid-success"), Num(7)>>,
      <<Word("norefs_total_summary"), Num(4)>>,
      <<Word("success"), Word("abc")>>,
      <<Word("success")>>,
      <<Word("success"), Num(5), Word("extra")>> }

RECURSIVE TextsUpTo(_)
TextsUpTo(n) ==
    IF n = 0 THEN {<<>>}
    ELSE LET shorter == TextsUpTo(n - 1)
         IN  shorter \cup {Append(t, l) : <<t, l>> \in {x \in shorter : Len(x) = n - 1} \X LineSet}

(* The text with one more line put in after its first p lines. *)
InsertLine(text, line, p) ==
    [i \in 1..(Len(text) + 1) |->
        IF i <= p THEN text[i] ELSE IF i = p + 1 THEN line ELSE text[i - 1]]

(* The stats file of one DUT with a single sample of the valid counters and of
   the norefs summary. *)
DutFile(vs, vf, ns, nt) ==
    << <<Word("valid-success"), Num(vs)>>, <<Word("valid-fails"), Num(vf)>>, SummaryLine(ns, nt) >>

SampleFiles ==
    { DutFile(1999, 1, 1, 1),
      DutFile(499, 1, 1, 2),
      DutFile(1, 1, 0, 0),
      DutFile(0, 0, 3, 2),
      DutFile(-1, 2, 1, 4),
      << <<Word("valid-success"), Word("abc")>> >>,
      <<>> }

NoPlot == [ok |-> TRUE, saved |-> FALSE]

InitRest ==
    /\ file_idx = 1
    /\ pc = "parse"
    /\ stats_raw = <<>>
    /\ stats_map = <<>>
    /\ min_len = 0
    /\ pct_by_dut = <<>>
    /\ valid_success_by_dut = <<>>
    /\ valid_fails_by_dut = <<>>
    /\ charts = <<>>
    /\ general_plot = NoPlot
    /\ ratio_plot = NoPlot
    /\ success_plot = NoPlot
    /\ fails_plot = NoPlot
    /\ rate_plot = NoPlot

(* Two stats files: any text of up to MaxLines lines, and the same text with
   one more line somewhere in it. *)
Init ==
    /\ \E text \in TextsUpTo(MaxLines) : \E line \in LineSet : \E p \in 0..Len(text) :
          files = << [name |-> DutName(1), text |-> text],
                     [name |-> DutName(2), text |-> InsertLine(text, line, p)] >>
    /\ InitRest

(* One to MaxDuts stats files, each a single-sample file. *)
InitRank ==
    /\ \E n \in 1..MaxDuts : \E f \in [1..n -> SampleFiles] :
          files = [i \in 1..n |-> [name |-> DutName(i), text |-> f[i]]]
    /\ InitRest

----------------------------------------------------------------------------
(* main                                                                    *)

(* for file in args.stats_files: stats_raw[name] = parse_stats_file(file) *)
ParseFile ==
    /\ pc = "parse"
    /\ file_idx <= Len(files)
    /\ LET r == parse_stats_file(files[file_idx].text) IN
       IF r.ok
       THEN /\ stats_raw' = DictSet(stats_raw, files[file_idx].name, r.stats)
            /\ file_idx' = file_idx + 1
            /\ pc' = pc
       ELSE /\ pc' = "aborted"
            /\ UNCHANGED <<stats_raw, file_idx>>
    /\ UNCHANGED <<files, stats_map, min_len, pct_by_dut, valid_success_by_dut,
                   valid_fails_by_dut, charts, general_plot, ratio_plot, success_plot,
                   fails_plot, rate_plot>>

(* stats_map, min_len = truncate_all(stats_raw) *)
Align ==
    /\ pc = "parse"
    /\ file_idx > Len(files)
    /\ LET r == truncate_all(stats_raw) IN
       IF r.ok
       THEN /\ stats_map' = r.stats_map
            /\ min_len' = r.min_len
            /\ pc' = "general"
       ELSE /\ pc' = "aborted"
            /\ UNCHANGED <<stats_map, min_len>>
    /\ UNCHANGED <<files, file_idx, stats_raw, pct_by_dut, valid_success_by_dut,
                   valid_fails_by_dut, charts, general_plot, ratio_plot, success_plot,
                   fails_plot, rate_plot>>

(* A chart call: the image file is written unless the call raised. *)
Step(r, file, next) ==
    IF r.ok
    THEN /\ charts' = IF r.saved THEN Append(charts, file) ELSE charts
         /\ pc' = next
    ELSE /\ charts' = charts
         /\ pc' = "aborted"

PlotGeneral ==
    /\ pc = "general"
    /\ LET r == plot_general(stats_map, min_len) IN
       /\ general_plot' = r
       /\ Step(r, "general", "valid")
    /\ UNCHANGED <<files, file_idx, stats_raw, stats_map, min_len, pct_by_dut,
                   valid_success_by_dut, valid_fails_by_dut, ratio_plot, success_plot,
                   fails_plot, rate_plot>>

PlotValid ==
    /\ pc = "valid"
    /\ LET r == plot_valid(stats_map, min_len) IN
       /\ pct_by_dut' = r.pct_by_dut
       /\ valid_success_by_dut' = r.valid_success_by_dut
       /\ valid_fails_by_dut' = r.valid_fails_by_dut
    /\ pc' = "ratio"
    /\ UNCHANGED <<files, file_idx, stats_raw, stats_map, min_len, charts, general_plot,
                   ratio_plot, success_plot, fails_plot, rate_plot>>

PlotValidRatio ==
    /\ pc = "ratio"
    /\ ratio_plot' = plot_valid_ratio(pct_by_dut, TimeAxis(min_len))
    /\ Step(ratio_plot', "ratio", "success")
    /\ UNCHANGED <<files, file_idx, stats_raw, stats_map, min_len, pct_by_dut,
                   valid_success_by_dut, valid_fails_by_dut, general_plot, success_plot,
                   fails_plot, rate_plot>>

PlotValidSuccess ==
    /\ pc = "success"
    /\ success_plot' = plot_valid_success(valid_success_by_dut, TimeAxis(min_len))
    /\ Step(success_plot', "success", "fails")
    /\ UNCHANGED <<files, file_idx, stats_raw, stats_map, min_len, pct_by_dut,
                   valid_success_by_dut, valid_fails_by_dut, general_plot, ratio_plot,
                   fails_plot, rate_plot>>

PlotValidFails ==
    /\ pc = "fails"
    /\ fails_plot' = plot_valid_fails(valid_fails_by_dut, TimeAxis(min_len))
    /\ Step(fails_plot', "fails", "pct")
    /\ UNCHANGED <<files, file_idx, stats_raw, stats_map, min_len, pct_by_dut,
                   valid_success_by_dut, valid_fails_by_dut, general_plot, ratio_plot,
                   success_plot, rate_plot>>

PlotSuccessRate ==
    /\ pc = "pct"
    /\ rate_plot' = plot_success_rate(stats_map, min_len)
    /\ Step(rate_plot', "pct", "done")
    /\ UNCHANGED <<files, file_idx, stats_raw, stats_map, min_len, pct_by_dut,
                   valid_success_by_dut, valid_fails_by_dut, general_plot, ratio_plot,
                   success_plot, fails_plot>>

Next ==
    \/ ParseFile
    \/ Align
    \/ PlotGeneral
    \/ PlotValid
    \/ PlotValidRatio
    \/ PlotValidSuccess
    \/ PlotValidFails
    \/ PlotSuccessRate

Spec == Init /\ [][Next]_vars

SpecRank == InitRank /\ [][Next]_vars

----------------------------------------------------------------------------
(* Vocabulary of the properties.                                           *)

(* truncate_all has returned. *)
Aligned == Len(stats_map) > 0

Wrote(file) == \E i \in 1..Len(charts) : charts[i] = file

AllCharts == <<"general", "ratio", "success", "fails", "pct">>

(* A line that reaches the key/value rule: two tokens, no section header, not
   the "Success ratios:" heading. *)
IsKeyValueShape(line) ==
    Len(line) = 2 /\ ~IsSectionHeader(line) /\ ~IsSuccessRatios(line)

(* A line that begins <name>: <pct>% success (<success>/<total>), any name. *)
IsSummaryShape(line) ==
    /\ Len(line) >= 4
    /\ line[1].k = "label"
    /\ line[2].k = "pct" /\ line[2].sp = 1
    /\ line[3].k = "word" /\ line[3].s = "success"
    /\ line[4].k = "frac"

IsNorefsSummary(line) == IsSummaryShape(line) /\ line[1].s = "buffer_migrate_folio_norefs:"

(* What the lines of a text add to one summary series, in file order, when the
   summary lines read are those of the given label (any = TRUE: of every
   label): the success
   (which = "a") or the total (which = "b") of each, and the value of each
   key/value line that names the series itself. *)
RECURSIVE Contributions(_, _, _, _, _)
Contributions(text, i, key, which, any) ==
    IF i > Len(text) THEN <<>>
    ELSE LET line == text[i]
             here == IF (IF any THEN IsSummaryShape(line) ELSE IsNorefsSummary(line))
                     THEN <<IF which = "a" THEN line[4].a ELSE line[4].b>>
                     ELSE IF IsKeyValueShape(line) /\ IsIntLiteral(line[2]) /\ Text(line[1]) = key
                     THEN <<line[2].a>>
                     ELSE <<>>
         IN  here \o Contributions(text, i + 1, key, which, any)

NamesSummarySeries(text) ==
    \E i \in 1..Len(text) :
        /\ IsKeyValueShape(text[i])
        /\ Text(text[i][1]) \in {"norefs_success_summary", "norefs_total_summary"}

(* The files parsed so far. *)
Parsed == 1..Len(stats_raw)

----------------------------------------------------------------------------
(* C1: once truncate_all has returned, every series of every metric of every
   dataset has exactly min_len entries, min_len is the least length of any
   series before the cut (so it is at most every original length), and each
   aligned series is the first min_len entries of the original, in order. *)
C1_Alignment ==
    Aligned =>
        /\ Len(stats_map) = Len(stats_raw)
        /\ \A i \in 1..Len(stats_raw) :
              /\ stats_map[i].name = stats_raw[i].name
              /\ DOMAIN stats_map[i].val = DOMAIN stats_raw[i].val
              /\ \A key \in DOMAIN stats_raw[i].val :
                    /\ Len(stats_map[i].val[key]) = min_len
                    /\ min_len <= Len(stats_raw[i].val[key])
                    /\ \A j \in 1..min_len : stats_map[i].val[key][j] = stats_raw[i].val[key][j]
        /\ \E i \in 1..Len(stats_raw) : \E key \in DOMAIN stats_raw[i].val :
              Len(stats_raw[i].val[key]) = min_len

(* Alignment that discarded trailing samples of some series and kept another whole. *)
C1_Witness ==
    /\ Aligned
    /\ \E i \in 1..Len(stats_raw) : \E key \in DOMAIN stats_raw[i].val :
          Len(stats_raw[i].val[key]) > min_len
    /\ \E i \in 1..Len(stats_raw) : \E key \in DOMAIN stats_raw[i].val :
          Len(stats_raw[i].val[key]) = min_len
    /\ min_len >= 1

(* C6: when the second file is the first with one more line in it, at any
   position, and that line has neither the two-token key/value shape nor the
   summary-line shape (it is blank, a heading, or has one token or three or
   more), parsing the second file raises no error the first did
   not raise and yields the same metric-to-series mapping. *)
C6_LineTolerance ==
    \A p \in 0..Len(files[1].text) :
        LET line == files[2].text[p + 1] IN
        ( /\ files[2].text = InsertLine(files[1].text, line, p)
          /\ ~IsKeyValueShape(line)
          /\ ~IsSummaryShape(line)
          /\ file_idx >= 2 )
        => /\ ~(pc = "aborted" /\ file_idx = 2)
           /\ file_idx > 2 => stats_raw[2].val = stats_raw[1].val

(* Both files parsed, the first to a non-empty mapping, the extra line of three tokens. *)
C6_Witness ==
    /\ file_idx = 3
    /\ DOMAIN stats_raw[1].val # {}
    /\ \E p \in 0..Len(files[1].text) :
          /\ files[2].text = InsertLine(files[1].text, files[2].text[p + 1], p)
          /\ Len(files[2].text[p + 1]) = 3

(* C7 as stated: every line of the summary shape, whatever its label, adds its
   success to norefs_success_summary and its total to norefs_total_summary, and
   the two series have equal length. *)
C7_AnyLabel ==
    \A i \in Parsed :
        /\ Get(stats_raw[i].val, "norefs_success_summary", <<>>)
             = Contributions(files[i].text, 1, "norefs_success_summary", "a", TRUE)
        /\ Get(stats_raw[i].val, "norefs_total_summary", <<>>)
             = Contributions(files[i].text, 1, "norefs_total_summary", "b", TRUE)
        /\ Len(Get(stats_raw[i].val, "norefs_success_summary", <<>>))
             = Len(Get(stats_raw[i].val, "norefs_total_summary", <<>>))

(* C7, amended: only the lines labelled buffer_migrate_folio_norefs are read as
   summary lines; each adds its success to norefs_success_summary and its total
   to norefs_total_summary, in file order, the percentage is not used, and the
   two series have equal length when no key/value line names either series. *)
C7_NorefsOnly ==
    \A i \in Parsed :
        /\ Get(stats_raw[i].val, "norefs_success_summary", <<>>)
             = Contributions(files[i].text, 1, "norefs_success_summary", "a", FALSE)
        /\ Get(stats_raw[i].val, "norefs_total_summary", <<>>)
             = Contributions(files[i].text, 1, "norefs_total_summary", "b", FALSE)
        /\ ~NamesSummarySeries(files[i].text) =>
              Len(Get(stats_raw[i].val, "norefs_success_summary", <<>>))
                = Len(Get(stats_raw[i].val, "norefs_total_summary", <<>>))

(* A parsed file with two norefs summary lines and a summary line of another label. *)
C7_Witness ==
    \E i \in Parsed :
        /\ Get(stats_raw[i].val, "norefs_success_summary", <<>>) = <<3, 3>>
        /\ Get(stats_raw[i].val, "norefs_total_summary", <<>>) = <<2, 2>>
        /\ \E j \in 1..Len(files[i].text) :
              IsSummaryShape(files[i].text[j]) /\ ~IsNorefsSummary(files[i].text[j])

(* A key/value line whose value is no integer. *)
HasBadValue(text) ==
    \E i \in 1..Len(text) : IsKeyValueShape(text[i]) /\ ~IsIntLiteral(text[i][2])

(* A line that adds to some series. *)
HasSample(text) ==
    \E i \in 1..Len(text) : IsNorefsSummary(text[i]) \/ IsKeyValueShape(text[i])

Fatal ==
    \/ \E i \in 1..Len(files) : HasBadValue(files[i].text)
    \/ \A i \in 1..Len(files) : ~HasSample(files[i].text)

(* C8: no chart is written before every file is parsed and the datasets are
   aligned; a run whose input has a key/value line with a non-integer value, or
   no series at all, never gets past parsing and alignment and writes no chart;
   a run that has written a chart does not abort, and ends with all five. *)
C8_NoPartialCharts ==
    /\ Len(charts) > 0 => file_idx > Len(files) /\ Aligned
    /\ Fatal => pc \in {"parse", "aborted"} /\ Len(charts) = 0
    /\ (pc = "aborted") => Len(charts) = 0 /\ Fatal
    /\ (pc = "done") => charts = AllCharts
    /\ \A i \in 1..Len(charts) : charts[i] = AllCharts[i]

(* The run aborted on the second file, after the first was parsed, no chart written. *)
C8_Witness ==
    /\ pc = "aborted"
    /\ file_idx = 2
    /\ Len(stats_raw) = 1
    /\ DOMAIN stats_raw[1].val # {}
    /\ HasBadValue(files[2].text)
    /\ Len(charts) = 0

(* The series a chart uses for a metric of dataset i. *)
Used(i, key) == Get(stats_map[i].val, key, [j \in 1..min_len |-> 0])

(* C9: when alignment succeeds, the series every chart uses for every metric it
   reads is the truncated series when the dataset has the metric and min_len
   zeros otherwise, so has min_len entries; the derived ratio series and the
   time axis have min_len entries too; and no chart call raises. *)
C9_MissingMetric ==
    Aligned =>
        /\ pc # "aborted"
        /\ Wrote("general") =>
              /\ Len(general_plot.time) = min_len
              /\ \A i \in 1..Len(stats_map) :
                    /\ general_plot.panels[i].success = Used(i, "success")
                    /\ general_plot.panels[i].fails = Used(i, "fails")
                    /\ general_plot.panels[i].invalid = Used(i, "invalid")
                    /\ Len(general_plot.panels[i].success) = min_len
                    /\ Len(general_plot.panels[i].fails) = min_len
                    /\ Len(general_plot.panels[i].invalid) = min_len
        /\ Len(pct_by_dut) > 0 =>
              \A i \in 1..Len(stats_map) :
                    /\ valid_success_by_dut[i].val = Used(i, "valid-success")
                    /\ valid_fails_by_dut[i].val = Used(i, "valid-fails")
                    /\ Len(valid_success_by_dut[i].val) = min_len
                    /\ Len(valid_fails_by_dut[i].val) = min_len
                    /\ Len(pct_by_dut[i].val) = min_len
        /\ Wrote("ratio") =>
              /\ Len(ratio_plot.time) = min_len
              /\ \A i \in 1..Len(stats_map) : Len(ratio_plot.lines[i].series) = min_len
        /\ Wrote("pct") =>
              /\ Len(rate_plot.time) = min_len
              /\ \A i \in 1..Len(stats_map) :
                    /\ rate_plot.success[i] = Used(i, "norefs_success_summary")
                    /\ rate_plot.total[i] = Used(i, "norefs_total_summary")
                    /\ Len(rate_plot.success[i]) = min_len
                    /\ Len(rate_plot.total[i]) = min_len
                    /\ Len(rate_plot.lines[i].series) = min_len

(* A finished run in which one dataset has a metric the other lacks, and the
   chart drew zeros for the one that lacks it. *)
C9_Witness ==
    /\ pc = "done"
    /\ charts = AllCharts
    /\ \E i, j \in 1..Len(stats_map) :
          /\ "valid-success" \in DOMAIN stats_map[i].val
          /\ "valid-success" \notin DOMAIN stats_map[j].val
          /\ valid_success_by_dut[j].val = [k \in 1..min_len |-> 0]
          /\ success_plot.lines[j].series = [k \in 1..min_len |-> 0]

----------------------------------------------------------------------------
(* Properties of the derived ratios, the ranking and the zoom range.       *)

InPercentRange(r) == RLe(RInt(0), r) /\ RLe(r, RInt(100))

(* C2 as stated: every entry of the valid success ratio and of the norefs
   success rate lies in [0, 100], and is 0 where its denominator is zero. *)
C2_RatioBounds ==
    /\ Len(pct_by_dut) > 0 =>
          \A d \in 1..Len(pct_by_dut) : \A i \in 1..Len(pct_by_dut[d].val) :
              /\ InPercentRange(pct_by_dut[d].val[i])
              /\ valid_success_by_dut[d].val[i] + valid_fails_by_dut[d].val[i] = 0
                    => pct_by_dut[d].val[i] = RInt(0)
    /\ Wrote("pct") =>
          \A d \in 1..Len(rate_plot.pct_by_dut) : \A i \in 1..Len(rate_plot.pct_by_dut[d].val) :
              /\ InPercentRange(rate_plot.pct_by_dut[d].val[i])
              /\ rate_plot.total[d][i] = 0 => rate_plot.pct_by_dut[d].val[i] = RInt(0)

(* C2, amended: an entry of the valid success ratio lies in [0, 100] when its
   valid-success and valid-fails samples are not negative, an entry of the
   norefs success rate lies in [0, 100] when its success is not negative and
   not above its total, and either is 0 where its denominator is zero. *)
C2_RatioBoundsOnCounters ==
    /\ Len(pct_by_dut) > 0 =>
          \A d \in 1..Len(pct_by_dut) : \A i \in 1..Len(pct_by_dut[d].val) :
              /\ (valid_success_by_dut[d].val[i] >= 0 /\ valid_fails_by_dut[d].val[i] >= 0)
                    => InPercentRange(pct_by_dut[d].val[i])
              /\ valid_success_by_dut[d].val[i] + valid_fails_by_dut[d].val[i] = 0
                    => pct_by_dut[d].val[i] = RInt(0)
    /\ Wrote("pct") =>
          \A d \in 1..Len(rate_plot.pct_by_dut) : \A i \in 1..Len(rate_plot.pct_by_dut[d].val) :
              /\ (0 <= rate_plot.success[d][i] /\ rate_plot.success[d][i] <= rate_plot.total[d][i])
                    => InPercentRange(rate_plot.pct_by_dut[d].val[i])
              /\ rate_plot.total[d][i] = 0 => rate_plot.pct_by_dut[d].val[i] = RInt(0)

(* A finished run with a zero valid denominator, a zero norefs total, and a
   ratio strictly between 0 and 100. *)
C2_Witness ==
    /\ pc = "done"
    /\ \E d \in 1..Len(pct_by_dut) :
          /\ valid_success_by_dut[d].val[1] = 0 /\ valid_fails_by_dut[d].val[1] = 0
          /\ pct_by_dut[d].val[1] = RInt(0)
    /\ \E d \in 1..Len(pct_by_dut) :
          /\ rate_plot.total[d][1] = 0
          /\ rate_plot.pct_by_dut[d].val[1] = RInt(0)
    /\ \E d \in 1..Len(pct_by_dut) :
          /\ valid_fails_by_dut[d].val[1] > 0 /\ valid_success_by_dut[d].val[1] > 0
          /\ RLt(RInt(0), pct_by_dut[d].val[1]) /\ RLt(pct_by_dut[d].val[1], RInt(100))

(* C3: for final valid success ratios in [0, 100], the y-axis range of the
   ratio chart has min_y < max_y and holds every final ratio. *)
C3_ZoomBounds ==
    (Wrote("ratio") /\ \A i \in 1..Len(ratio_plot.finals) : InPercentRange(ratio_plot.finals[i].val))
    => /\ RLt(ratio_plot.ylim.min_y, ratio_plot.ylim.max_y)
       /\ \A i \in 1..Len(ratio_plot.finals) :
             /\ RLe(ratio_plot.ylim.min_y, ratio_plot.finals[i].val)
             /\ RLe(ratio_plot.finals[i].val, ratio_plot.ylim.max_y)

(* The lines of a chart drawn in a colour. *)
LinesOf(plot, c) == {i \in 1..Len(plot.lines) : plot.lines[i].color.c = c}

DistinctFinals(plot) == Cardinality({plot.finals[i].val : i \in 1..Len(plot.finals)})

RankingTotal(plot) ==
    /\ Len(plot.lines) = 1 => plot.best = plot.lines[1].dut /\ plot.worst = plot.lines[1].dut
    /\ DistinctFinals(plot) >= 2 =>
          /\ Cardinality(LinesOf(plot, "green")) = 1
          /\ Cardinality(LinesOf(plot, "red")) = 1
          /\ \A i \in LinesOf(plot, "green") : plot.lines[i].dut = plot.best
          /\ \A i \in LinesOf(plot, "red") : plot.lines[i].dut = plot.worst
          /\ plot.best # plot.worst

(* C4: in each ranked chart, with at least two distinct final values exactly
   one dataset is drawn green, as the best, and exactly one other red, as the
   worst; a single dataset is both the best and the worst. *)
C4_RankingTotality ==
    /\ Wrote("ratio") => RankingTotal(ratio_plot)
    /\ Wrote("success") => RankingTotal(success_plot)
    /\ Wrote("fails") => RankingTotal(fails_plot)
    /\ Wrote("pct") => RankingTotal(rate_plot)

(* A finished run of three datasets, two of them tied on the valid fails. *)
C4_Witness ==
    /\ pc = "done"
    /\ Len(fails_plot.lines) = 3
    /\ DistinctFinals(fails_plot) = 2
    /\ DistinctFinals(rate_plot) = 3

(* The datasets of a chart that are neither its best nor its worst. *)
MiddleLines(plot) ==
    {i \in 1..Len(plot.lines) : plot.lines[i].dut # plot.best /\ plot.lines[i].dut # plot.worst}

FinalOf(plot, dut) == plot.finals[CHOOSE i \in 1..Len(plot.finals) : plot.finals[i].name = dut].val

ExtremesSwapped(hi, lo) ==
    /\ lo.best = hi.worst
    /\ lo.worst = hi.best
    /\ \A i \in 1..Len(lo.finals) : /\ FinalOf(lo, lo.best) <= lo.finals[i].val
                                    /\ lo.finals[i].val <= FinalOf(lo, lo.worst)

(* C5 as stated: ranking the valid success series as plot_valid_fails ranks
   swaps best and worst (least final best, greatest final worst) and reverses
   the rank index of each middle dataset. *)
C5_PolarityReversesMiddle ==
    Wrote("success") =>
        LET hi == success_plot
            lo == plot_valid_fails(valid_success_by_dut, TimeAxis(min_len))
        IN  /\ ExtremesSwapped(hi, lo)
            /\ \A i \in MiddleLines(hi) :
                  lo.lines[i].zorder = (Len(hi.middle) - 1) - hi.lines[i].zorder

(* C5, amended: ranking the valid success series as plot_valid_fails ranks
   swaps best and worst (least final best, greatest final worst) and leaves
   each middle dataset its rank index, colour and z-order. *)
C5_PolarityKeepsMiddle ==
    Wrote("success") =>
        LET hi == success_plot
            lo == plot_valid_fails(valid_success_by_dut, TimeAxis(min_len))
        IN  /\ ExtremesSwapped(hi, lo)
            /\ lo.middle = hi.middle
            /\ MiddleLines(lo) = MiddleLines(hi)
            /\ \A i \in MiddleLines(hi) :
                  /\ lo.lines[i].zorder = hi.lines[i].zorder
                  /\ lo.lines[i].color = hi.lines[i].color

(* Four datasets with four distinct final valid success counts: two middle ranks. *)
C5_Witness ==
    /\ Wrote("success")
    /\ Len(success_plot.lines) = 4
    /\ DistinctFinals(success_plot) = 4
    /\ \E i, j \in MiddleLines(success_plot) :
          success_plot.lines[i].zorder = 0 /\ success_plot.lines[j].zorder = 1

Extremes(plot) == (1..Len(plot.lines)) \ MiddleLines(plot)

HeavierAndAbove(plot) ==
    \A m \in MiddleLines(plot) : \A e \in Extremes(plot) :
        /\ RLt(plot.lines[m].linewidth, plot.lines[e].linewidth)
        /\ plot.lines[m].zorder < plot.lines[e].zorder

(* C10 as stated: in each ranked chart the best and the worst dataset have a
   strictly heavier line and a strictly higher z-order than every middle one. *)
C10_HeavierEverywhere ==
    /\ Wrote("ratio") => HeavierAndAbove(ratio_plot)
    /\ Wrote("success") => HeavierAndAbove(success_plot)
    /\ Wrote("fails") => HeavierAndAbove(fails_plot)
    /\ Wrote("pct") => HeavierAndAbove(rate_plot)

(* C10, amended: in the three valid charts the best and the worst dataset have
   a strictly heavier line and a strictly higher z-order than every middle
   one; in the norefs success-rate chart they have a strictly higher z-order
   and the same line weight as every middle one. *)
C10_HeavierInValidCharts ==
    /\ Wrote("ratio") => HeavierAndAbove(ratio_plot)
    /\ Wrote("success") => HeavierAndAbove(success_plot)
    /\ Wrote("fails") => HeavierAndAbove(fails_plot)
    /\ Wrote("pct") =>
          \A m \in MiddleLines(rate_plot) : \A e \in Extremes(rate_plot) :
              /\ rate_plot.lines[m].linewidth = rate_plot.lines[e].linewidth
              /\ rate_plot.lines[m].zorder < rate_plot.lines[e].zorder

(* A finished run of four datasets: two middle lines in every chart. *)
C10_Witness ==
    /\ pc = "done"
    /\ Cardinality(MiddleLines(ratio_plot)) = 2
    /\ Cardinality(MiddleLines(fails_plot)) = 2
    /\ Cardinality(MiddleLines(rate_plot)) = 2

====
